---------------------------- MODULE Spec2Model ----------------------------
(***************************************************************************)
(* Model of the Gemini chatbot plugin (src/main.ts): the conversation      *)
(* request/response lifecycle of GeminiChatbotPlugin and the reversible    *)
(* API-key transform.                                                      *)
(*                                                                         *)
(* The plugin runs on a single-threaded event loop: every UI handler and   *)
(* every promise continuation runs to completion, so each is one action.   *)
(* Chat texts are sequences of one-character strings; credential strings   *)
(* are sequences of UTF-16 code units (integers), because btoa/atob work   *)
(* on character codes.                                                     *)
(*                                                                         *)
(* Environment assumptions: MarkdownRenderer.renderMarkdown and            *)
(* vault.read resolve (they are never modelled as rejecting); a read       *)
(* resolves with any of the file texts; the messages element, the input    *)
(* field and the suggested-actions element exist (addChatContainer built   *)
(* them before any handler can run).  Presentation-only effects (input     *)
(* clearing and focus, placeholder, scrolling, panel position) are left    *)
(* out: no handler reads them back.                                        *)
(***************************************************************************)
EXTENDS Integers, Sequences, FiniteSets, TLC

VARIABLES
    apiKey,              \* settings.apiKey, the stored (obfuscated) key
    geminiService,       \* this.geminiService: none, or a client holding a key
    visible,             \* chatContainer.style.display # 'none'
    messages,            \* children of messagesContainer, in DOM order
    currentFileContent,  \* this.currentFileContent
    suggestedShown,      \* .suggested-actions display # 'none'
    header,              \* .current-file: the basename shown, or hidden
    reads,               \* vault.read promises not yet resolved
    modals,              \* open LanguageSelectionModals (captured content)
    calls,               \* handleMessage / translate invocations, by id
    cred                 \* input and result of the credential transform

vars == <<apiKey, geminiService, visible, messages, currentFileContent,
          suggestedShown, header, reads, modals, calls, cred>>

chatVars == <<visible, messages, currentFileContent,
              suggestedShown, header, reads, modals, calls>>

(***************************************************************************)
(* Bounds of the model.                                                    *)
(***************************************************************************)
MaxCalls == 1     \* handleMessage / translate invocations in one run
MaxReads == 1     \* vault.read promises outstanding at once
MaxModals == 1    \* language pickers open at once
MaxMsgs == 1      \* transcript length up to which precondition errors are added
MaxKeyLen == 4    \* longest string given to the credential transform

(***************************************************************************)
(* Strings.                                                                *)
(***************************************************************************)
RECURSIVE TextsUpTo(_, _)
TextsUpTo(chars, n) ==
    IF n = 0 THEN {<<>>}
    ELSE LET shorter == TextsUpTo(chars, n - 1)
         IN  shorter \cup {Append(t, c) : t \in shorter, c \in chars}

Reverse(s) == [i \in 1..Len(s) |-> s[Len(s) + 1 - i]]

\* string | null
Null == [isNull |-> TRUE, text |-> <<>>]
Str(t) == [isNull |-> FALSE, text |-> t]
\* JavaScript truthiness of a string | null: null and '' are falsy
Truthy(v) == ~v.isNull /\ v.text # <<>>

WhiteSpace == {" ", "\n", "\t"}

RECURSIVE TrimStart(_)
TrimStart(s) ==
    IF s # <<>> /\ Head(s) \in WhiteSpace THEN TrimStart(Tail(s)) ELSE s

\* a trim that strips nothing
TrimNothing(s) == s
\* String.prototype.trim
Trim(s) == Reverse(TrimStart(Reverse(TrimStart(s))))

(***************************************************************************)
(* The credential transform: encryptApiKey / decryptApiKey.                *)
(* A result is [ok, text]; ok = FALSE is a thrown DOMException.            *)
(***************************************************************************)
Ok(t) == [ok |-> TRUE, text |-> t]
Thrown == [ok |-> FALSE, text |-> <<>>]

PadChar == 61
AsciiWhiteSpace == {9, 10, 12, 13, 32}

\* the base64 alphabet A-Z a-z 0-9 + /
B64Char(i) ==
    IF i < 26 THEN 65 + i
    ELSE IF i < 52 THEN 97 + (i - 26)
    ELSE IF i < 62 THEN 48 + (i - 52)
    ELSE IF i = 62 THEN 43 ELSE 47

IsB64Char(c) ==
    \/ c \in 65..90
    \/ c \in 97..122
    \/ c \in 48..57
    \/ c \in {43, 47}

B64Index(c) ==
    IF c \in 65..90 THEN c - 65
    ELSE IF c \in 97..122 THEN c - 97 + 26
    ELSE IF c \in 48..57 THEN c - 48 + 52
    ELSE IF c = 43 THEN 62 ELSE 63

RECURSIVE BtoaBytes(_)
BtoaBytes(s) ==
    IF Len(s) = 0 THEN <<>>
    ELSE IF Len(s) = 1 THEN
        <<B64Char(s[1] \div 4), B64Char((s[1] % 4) * 16), PadChar, PadChar>>
    ELSE IF Len(s) = 2 THEN
        <<B64Char(s[1] \div 4), B64Char((s[1] % 4) * 16 + (s[2] \div 16)),
          B64Char((s[2] % 16) * 4), PadChar>>
    ELSE
        <<B64Char(s[1] \div 4), B64Char((s[1] % 4) * 16 + (s[2] \div 16)),
          B64Char((s[2] % 16) * 4 + (s[3] \div 64)), B64Char(s[3] % 64)>>
        \o BtoaBytes(SubSeq(s, 4, Len(s)))

\* window.btoa: throws on a code unit above 255
Btoa(s) ==
    IF \E i \in 1..Len(s) : s[i] > 255 THEN Thrown ELSE Ok(BtoaBytes(s))

RECURSIVE AtobSextets(_)
AtobSextets(s) ==
    IF Len(s) = 0 THEN <<>>
    ELSE IF Len(s) = 2 THEN
        <<B64Index(s[1]) * 4 + (B64Index(s[2]) \div 16)>>
    ELSE IF Len(s) = 3 THEN
        <<B64Index(s[1]) * 4 + (B64Index(s[2]) \div 16),
          (B64Index(s[2]) % 16) * 16 + (B64Index(s[3]) \div 4)>>
    ELSE
        <<B64Index(s[1]) * 4 + (B64Index(s[2]) \div 16),
          (B64Index(s[2]) % 16) * 16 + (B64Index(s[3]) \div 4),
          (B64Index(s[3]) % 4) * 64 + B64Index(s[4])>>
        \o AtobSextets(SubSeq(s, 5, Len(s)))

\* window.atob (forgiving-base64 decode): strip ASCII whitespace, drop one or
\* two trailing '=' of a length that is a multiple of 4, reject a length of
\* 1 mod 4 and any character outside the alphabet, discard the spare bits
Atob(s) ==
    LET stripped == SelectSeq(s, LAMBDA c : c \notin AsciiWhiteSpace)
        n == Len(stripped)
        pads == IF n % 4 = 0 /\ n > 0 /\ stripped[n] = PadChar
                THEN IF stripped[n - 1] = PadChar THEN 2 ELSE 1
                ELSE 0
        data == SubSeq(stripped, 1, n - pads)
    IN  IF Len(data) % 4 = 1 THEN Thrown
        ELSE IF \E i \in 1..Len(data) : ~IsB64Char(data[i]) THEN Thrown
        ELSE Ok(AtobSextets(data))

encryptApiKey(key) == Btoa(Reverse(key))

decryptApiKeyNoReverse(encryptedKey) == Atob(encryptedKey)
decryptApiKey(encryptedKey) ==
    LET decoded == Atob(encryptedKey)
    IN  IF decoded.ok THEN Ok(Reverse(decoded.text)) ELSE Thrown

(***************************************************************************)
(* Fixed texts of src/main.ts.                                             *)
(***************************************************************************)
ContextPrefix ==
    <<"C","o","n","t","e","x","t"," ","f","r","o","m"," ","c","u","r","r",
      "e","n","t"," ","n","o","t","e",":","\n">>
QuestionPrefix ==
    <<"\n","\n","U","s","e","r"," ","q","u","e","s","t","i","o","n",":"," ">>
SummarizePrefix ==
    <<"P","l","e","a","s","e"," ","p","r","o","v","i","d","e"," ","a"," ",
      "c","o","n","c","i","s","e"," ","s","u","m","m","a","r","y"," ","o",
      "f"," ","t","h","i","s"," ","c","o","n","t","e","n","t",":","\n">>
ActionItemsPrefix ==
    <<"P","l","e","a","s","e"," ","a","n","a","l","y","z","e"," ","t","h",
      "i","s"," ","c","o","n","t","e","n","t"," ","a","n","d"," ","l","i",
      "s","t"," ","a","l","l"," ","a","c","t","i","o","n"," ","i","t","e",
      "m","s",","," ","t","a","s","k","s",","," ","a","n","d"," ","t","o",
      "-","d","o","s",":","\n">>
GeminiFailedText ==
    <<"F","a","i","l","e","d"," ","t","o"," ","g","e","t"," ","r","e","s",
      "p","o","n","s","e"," ","f","r","o","m"," ","G","e","m","i","n","i">>
NoActiveFileText ==
    <<"N","o"," ","a","c","t","i","v","e"," ","f","i","l","e"," ","s","e",
      "l","e","c","t","e","d">>
TranslationFailedText ==
    <<"T","r","a","n","s","l","a","t","i","o","n"," ","f","a","i","l","e",
      "d">>

Actions ==
    {"Summarize this page", "Ask about this page", "Find action items",
     "Translate to"}

(***************************************************************************)
(* The environment: the vault's documents, what the user can type, what    *)
(* the remote model can answer, the keys the settings tab is given.        *)
(***************************************************************************)
NoFile == "none"
Files == {"Doc"}
\* what vault.read can resolve with: the document's text, possibly empty
FileTexts == {<<"d">>, <<>>}

\* what the user can have typed: nothing, blanks, text, text within blanks
Inputs == {<<>>, <<" ">>, <<"a">>, <<" ", "a", " ">>}

Responses == {<<"r">>}
Translations == {<<"t">>}
Languages == {"French"}

KeyChars == {81, 82, 61, 32, 8364}      \* Q R = space and the euro sign
KeyStrings == TextsUpTo(KeyChars, MaxKeyLen)
KeyInputs == {<<81>>}

(***************************************************************************)
(* The transcript: the children of messagesContainer.  An element is a     *)
(* message (cls user, bot or error) or a typing indicator; call is the     *)
(* invocation that created it (0: the action-button handler).              *)
(* A handler's effects thread a record h = [messages, trace]: the          *)
(* transcript, and the effects of this invocation in the order it          *)
(* performed them.                                                         *)
(***************************************************************************)
Element(cls, content, id) == [cls |-> cls, content |-> content, call |-> id]

\* addMessageToChat up to its appendChild (user messages append at once;
\* bot messages append when renderMarkdown has resolved)
AddMessageToChat(h, role, content, id) ==
    [messages |-> Append(h.messages, Element(role, content, id)),
     trace |-> Append(h.trace, role)]

AddErrorMessage(h, text, id) ==
    [messages |-> Append(h.messages, Element("error", text, id)),
     trace |-> Append(h.trace, "error")]

\* messagesContainer.appendChild(typingIndicator)
ShowTypingIndicator(h, id) ==
    [messages |-> Append(h.messages, Element("typing", <<>>, id)),
     trace |-> Append(h.trace, "typing")]

\* typingIndicator.remove(): a no-op on an element already detached
RemoveTypingIndicator(h, id) ==
    [messages |-> SelectSeq(h.messages,
                      LAMBDA e : ~(e.cls = "typing" /\ e.call = id)),
     trace |-> Append(h.trace, "untyping")]

\* the call of geminiService.sendMessage / translateContent
CallModelClient(h, op) ==
    [messages |-> h.messages, trace |-> Append(h.trace, op)]

Start == [messages |-> messages, trace |-> <<>>]
Resume(id) == [messages |-> messages, trace |-> calls[id].trace]

\* an invocation: what it was given (message: handleMessage's argument or the
\* picker's content), what it gave the Model Client (prompt, lang), where it
\* stands, what the Model Client returned, and its effects so far
Call(kind, message, prompt, lang, trace) ==
    [kind |-> kind, message |-> message, prompt |-> prompt, lang |-> lang,
     status |-> "pending", response |-> <<>>, trace |-> trace]

(***************************************************************************)
(* initializeGeminiService and the settings tab's onChange.                *)
(***************************************************************************)
InitializeGeminiService(key, service) ==
    IF key # <<>>
    THEN LET decryptedKey == decryptApiKey(key)
         IN  IF decryptedKey.ok THEN Str(decryptedKey.text) ELSE service
    ELSE service

ApiKeyChange(value) ==
    LET encrypted == encryptApiKey(value)
    IN  /\ IF encrypted.ok
           THEN /\ apiKey' = encrypted.text
                /\ geminiService' =
                       InitializeGeminiService(encrypted.text, geminiService)
           ELSE UNCHANGED <<apiKey, geminiService>>
        /\ UNCHANGED <<chatVars, cred>>

(***************************************************************************)
(* handleMessage, up to its await.                                         *)
(***************************************************************************)
ComposePromptUnlessNull(context, message) ==
    IF ~context.isNull
    THEN ContextPrefix \o context.text \o QuestionPrefix \o message
    ELSE message

ComposePrompt(context, message) ==
    IF Truthy(context)
    THEN ContextPrefix \o context.text \o QuestionPrefix \o message
    ELSE message

HandleMessageIndicatorFirst(message) ==
    IF geminiService.isNull \/ Trim(message) = <<>>
    THEN [messages |-> messages, calls |-> calls,
          suggestedShown |-> suggestedShown]
    ELSE LET id == Len(calls) + 1
             contextMessage == ComposePrompt(currentFileContent, message)
             h1 == ShowTypingIndicator(Start, id)
             h2 == AddMessageToChat(h1, "user", contextMessage, id)
             h3 == CallModelClient(h2, "sendMessage")
         IN  [messages |-> h3.messages,
              calls |-> Append(calls,
                           Call("chat", message, contextMessage, "", h3.trace)),
              suggestedShown |-> FALSE]

HandleMessage(message) ==
    IF geminiService.isNull \/ Trim(message) = <<>>
    THEN [messages |-> messages, calls |-> calls,
          suggestedShown |-> suggestedShown]
    ELSE LET id == Len(calls) + 1
             contextMessage == ComposePrompt(currentFileContent, message)
             h1 == AddMessageToChat(Start, "user", message, id)
             h2 == ShowTypingIndicator(h1, id)
             h3 == CallModelClient(h2, "sendMessage")
         IN  [messages |-> h3.messages,
              calls |-> Append(calls,
                           Call("chat", message, contextMessage, "", h3.trace)),
              suggestedShown |-> FALSE]

\* whether handleMessage(message) would issue a request
Issues(message) == ~geminiService.isNull /\ Trim(message) # <<>>

(***************************************************************************)
(* The send button and the Enter key: the same handler body.  value is     *)
(* what the user has typed into the input field.                           *)
(***************************************************************************)
\* the handler body: the transcript, the invocations and the suggested
\* actions' visibility when it returns
SubmitHandler(value) ==
    LET message == Trim(value)
    IN  IF message # <<>>
        THEN HandleMessage(message)
        ELSE [messages |-> messages, calls |-> calls,
              suggestedShown |-> suggestedShown]

SubmitInput(value, cap) ==
    /\ visible
    /\ Issues(Trim(value)) => Len(calls) < cap
    /\ messages' = SubmitHandler(value).messages
    /\ calls' = SubmitHandler(value).calls
    /\ suggestedShown' = SubmitHandler(value).suggestedShown
    /\ UNCHANGED <<apiKey, geminiService, visible, currentFileContent,
                   header, reads, modals, cred>>

(***************************************************************************)
(* The suggested-action buttons.                                           *)
(***************************************************************************)
ActionButtonClick(action, cap) ==
    /\ visible
    /\ suggestedShown
    /\ IF ~Truthy(currentFileContent)
       THEN /\ Len(messages) < MaxMsgs
            /\ messages' = AddErrorMessage(Start, NoActiveFileText, 0).messages
            /\ UNCHANGED <<calls, suggestedShown, modals>>
       ELSE CASE action = "Summarize this page" ->
                 LET m == SummarizePrefix \o currentFileContent.text
                     r == HandleMessage(m)
                 IN  /\ Issues(m) => Len(calls) < cap
                     /\ messages' = r.messages
                     /\ calls' = r.calls
                     /\ suggestedShown' = FALSE
                     /\ UNCHANGED <<modals>>
              [] action = "Ask about this page" ->
                     /\ suggestedShown' = FALSE
                     /\ UNCHANGED <<messages, calls, modals>>
              [] action = "Find action items" ->
                 LET m == ActionItemsPrefix \o currentFileContent.text
                     r == HandleMessage(m)
                 IN  /\ Issues(m) => Len(calls) < cap
                     /\ messages' = r.messages
                     /\ calls' = r.calls
                     /\ suggestedShown' = FALSE
                     /\ UNCHANGED <<modals>>
              [] action = "Translate to" ->
                     /\ Len(modals) < MaxModals
                     /\ modals' = Append(modals, currentFileContent.text)
                     /\ suggestedShown' = FALSE
                     /\ UNCHANGED <<messages, calls>>
    /\ UNCHANGED <<apiKey, geminiService, visible,
                   currentFileContent, header, reads, cred>>

(***************************************************************************)
(* The language picker.  Accepting invokes the callback once with the      *)
(* chosen language; dismissing invokes nothing.                            *)
(***************************************************************************)
RemoveAt(seq, i) == SubSeq(seq, 1, i - 1) \o SubSeq(seq, i + 1, Len(seq))

\* the callback of showLanguageSelectionModal, up to translateContent's promise
TranslateCallback(content, language) ==
    IF ~geminiService.isNull
    THEN Append(calls, Call("translate", content, content, language,
                    CallModelClient(Start, "translateContent").trace))
    ELSE calls

ModalAccept(i, language, cap) ==
    /\ i \in 1..Len(modals)
    /\ ~geminiService.isNull => Len(calls) < cap
    /\ modals' = RemoveAt(modals, i)
    /\ calls' = TranslateCallback(modals[i], language)
    /\ UNCHANGED <<apiKey, geminiService, visible, messages,
                   currentFileContent, suggestedShown, header,
                   reads, cred>>

ModalDismiss(i) ==
    /\ i \in 1..Len(modals)
    /\ modals' = RemoveAt(modals, i)
    /\ UNCHANGED <<apiKey, geminiService, visible, messages,
                   currentFileContent, suggestedShown, header,
                   reads, calls, cred>>

(***************************************************************************)
(* toggleChatContainer (the chat icon and the close button) and the        *)
(* resolution of its vault.read.                                           *)
(***************************************************************************)
\* the header shows the active file's basename, or is hidden
UpdateChatHeader(activeFile) == activeFile

ClearedNothing == messages
Cleared == <<>>

\* activeFile is what app.workspace.getActiveFile() returns during the call
ToggleChatContainer(activeFile) ==
    /\ visible' = ~visible
    /\ IF ~visible
       THEN /\ activeFile # NoFile => Len(reads) < MaxReads
            /\ messages' = Cleared
            /\ header' = UpdateChatHeader(activeFile)
            /\ reads' = IF activeFile # NoFile
                        THEN Append(reads, activeFile)
                        ELSE reads
            /\ suggestedShown' = TRUE
       ELSE UNCHANGED <<messages, header, reads, suggestedShown>>
    /\ UNCHANGED <<apiKey, geminiService, 
                   currentFileContent, modals, calls, cred>>

\* the then callback of vault.read
ReadResolve(i, content) ==
    /\ i \in 1..Len(reads)
    /\ currentFileContent' = Str(content)
    /\ reads' = RemoveAt(reads, i)
    /\ UNCHANGED <<apiKey, geminiService, visible, messages,
                   suggestedShown, header, modals, calls, cred>>

(***************************************************************************)
(* The continuations of the remote calls.                                  *)
(***************************************************************************)
Settle(id, h, status, response) ==
    /\ messages' = h.messages
    /\ calls' = [calls EXCEPT ![id].status = status,
                              ![id].response = response,
                              ![id].trace = h.trace]
    /\ UNCHANGED <<apiKey, geminiService, visible, 
                   currentFileContent, suggestedShown, header, reads,
                   modals, cred>>

OnSendMessageResolvedKeepsIndicator(id) == Resume(id)

\* sendMessage resolved: the try block up to the await inside addMessageToChat
OnSendMessageResolved(id) == RemoveTypingIndicator(Resume(id), id)

SendMessageResolve(id, response) ==
    /\ id \in 1..Len(calls)
    /\ calls[id].kind = "chat"
    /\ calls[id].status = "pending"
    /\ Settle(id, OnSendMessageResolved(id), "rendering", response)

OnSendMessageRejectedKeepsIndicator(id) ==
    AddErrorMessage(Resume(id), GeminiFailedText, id)

\* sendMessage rejected: the catch block
OnSendMessageRejected(id) ==
    AddErrorMessage(RemoveTypingIndicator(Resume(id), id), GeminiFailedText, id)

SendMessageReject(id) ==
    /\ id \in 1..Len(calls)
    /\ calls[id].kind = "chat"
    /\ calls[id].status = "pending"
    /\ Settle(id, OnSendMessageRejected(id), "failed", <<>>)

\* translateContent resolved: the then callback starts addMessageToChat
TranslateResolve(id, translation) ==
    /\ id \in 1..Len(calls)
    /\ calls[id].kind = "translate"
    /\ calls[id].status = "pending"
    /\ Settle(id, Resume(id), "rendering", translation)

OnTranslateRejectedQuietly(id) == Resume(id)

\* translateContent rejected: the catch callback
OnTranslateRejected(id) == AddErrorMessage(Resume(id), TranslationFailedText, id)

TranslateReject(id) ==
    /\ id \in 1..Len(calls)
    /\ calls[id].kind = "translate"
    /\ calls[id].status = "pending"
    /\ Settle(id, OnTranslateRejected(id), "failed", <<>>)

\* renderMarkdown resolved: addMessageToChat appends the bot message
OnRendered(id) == AddMessageToChat(Resume(id), "bot", calls[id].response, id)

RenderResolve(id) ==
    /\ id \in 1..Len(calls)
    /\ calls[id].status = "rendering"
    /\ Settle(id, OnRendered(id), "rendered", calls[id].response)

(***************************************************************************)
(* The plugin after onload.                                                *)
(***************************************************************************)
StoredKeys == {<<>>, encryptApiKey(<<81>>).text}

NoCred == [s |-> <<>>, op |-> "none", out |-> Thrown]

\* the panel as addChatContainer leaves it
InitChat ==
    /\ visible = FALSE
    /\ messages = <<>>
    /\ currentFileContent = Null
    /\ suggestedShown = TRUE
    /\ header = NoFile
    /\ reads = <<>>
    /\ modals = <<>>
    /\ calls = <<>>

Init ==
    /\ apiKey \in StoredKeys
    /\ geminiService = InitializeGeminiService(apiKey, Null)
    /\ InitChat
    /\ cred = NoCred

\* cap: how many invocations a run may start
NextUpTo(cap) ==
    \/ \E value \in KeyInputs : ApiKeyChange(value)
    \/ \E value \in Inputs : SubmitInput(value, cap)
    \/ \E action \in Actions : ActionButtonClick(action, cap)
    \/ \E i \in 1..MaxModals, language \in Languages :
           ModalAccept(i, language, cap)
    \/ \E i \in 1..MaxModals : ModalDismiss(i)
    \/ \E f \in Files \cup {NoFile} : ToggleChatContainer(f)
    \/ \E i \in 1..MaxReads, content \in FileTexts : ReadResolve(i, content)
    \/ \E id \in 1..cap, r \in Responses : SendMessageResolve(id, r)
    \/ \E id \in 1..cap : SendMessageReject(id)
    \/ \E id \in 1..cap, t \in Translations : TranslateResolve(id, t)
    \/ \E id \in 1..cap : TranslateReject(id)
    \/ \E id \in 1..cap : RenderResolve(id)

Next == NextUpTo(MaxCalls)

Spec == Init /\ [][Next]_vars

\* the same program, allowed one more invocation
OverlapNext == NextUpTo(MaxCalls + 1)

OverlapSpec == Init /\ [][OverlapNext]_vars

(***************************************************************************)
(* Fairness: a remote call that is outstanding eventually resolves or      *)
(* rejects, and renderMarkdown eventually resolves.                        *)
(***************************************************************************)
Fairness ==
    \A id \in 1..MaxCalls :
        /\ WF_vars(\/ \E r \in Responses : SendMessageResolve(id, r)
                   \/ SendMessageReject(id))
        /\ WF_vars(\/ \E t \in Translations : TranslateResolve(id, t)
                   \/ TranslateReject(id))
        /\ WF_vars(RenderResolve(id))

FairSpec == Init /\ [][Next]_vars /\ Fairness

(***************************************************************************)
(* The credential transform on its own: the settings tab is given the      *)
(* string cred.s, and encryptApiKey / decryptApiKey are applied to it in   *)
(* both orders.                                                            *)
(***************************************************************************)
CredInit ==
    /\ cred \in {[s |-> s, op |-> "none", out |-> Thrown] : s \in KeyStrings}
    /\ apiKey = <<>>
    /\ geminiService = Null
    /\ InitChat

Obfuscate ==
    /\ cred.op = "none"
    /\ cred' = [cred EXCEPT !.op = "obfuscate", !.out = encryptApiKey(cred.s)]
    /\ UNCHANGED <<apiKey, geminiService, chatVars>>

Reveal ==
    /\ cred.op = "none"
    /\ cred' = [cred EXCEPT !.op = "reveal", !.out = decryptApiKey(cred.s)]
    /\ UNCHANGED <<apiKey, geminiService, chatVars>>

RevealObfuscated ==
    /\ cred.op = "obfuscate"
    /\ cred' = [cred EXCEPT !.op = "reveal(obfuscate)",
                            !.out = IF cred.out.ok THEN decryptApiKey(cred.out.text) ELSE Thrown]
    /\ UNCHANGED <<apiKey, geminiService, chatVars>>

ObfuscateRevealed ==
    /\ cred.op = "reveal"
    /\ cred' = [cred EXCEPT !.op = "obfuscate(reveal)",
                            !.out = IF cred.out.ok THEN encryptApiKey(cred.out.text) ELSE Thrown]
    /\ UNCHANGED <<apiKey, geminiService, chatVars>>

CredNext ==
    \/ Obfuscate
    \/ Reveal
    \/ RevealObfuscated
    \/ ObfuscateRevealed
    \/ ApiKeyChange(cred.s)

CredSpec == CredInit /\ [][CredNext]_vars

(***************************************************************************)
(* Properties.                                                             *)
(***************************************************************************)
IsBlank(text) == \A i \in 1..Len(text) : text[i] \in WhiteSpace

Ids == 1..Len(calls)
ChatIds == {id \in Ids : calls[id].kind = "chat"}
TranslateIds == {id \in Ids : calls[id].kind = "translate"}

\* the Conversation: the transcript without the typing indicators
Conversation(dom) == SelectSeq(dom, LAMBDA e : e.cls # "typing")
HasElement(dom, e) == \E i \in 1..Len(dom) : dom[i] = e
Occurrences(seq, x) == Cardinality({i \in 1..Len(seq) : seq[i] = x})
Unchanged ==
    [messages |-> messages, calls |-> calls, suggestedShown |-> suggestedShown]

\* C1: with a Model Client configured, handleMessage(rawText) for a rawText
\* that is not blank appends exactly one user Message whose content is
\* rawText, then shows the typing indicator, then issues the remote call.
C1_UserMessageBeforeIndicator ==
    \A rawText \in Inputs :
        (~geminiService.isNull /\ ~IsBlank(rawText)) =>
            LET r == HandleMessage(rawText)
                id == Len(r.calls)
            IN  /\ Len(r.calls) = Len(calls) + 1
                /\ r.messages = messages \o
                       <<Element("user", rawText, id),
                         Element("typing", <<>>, id)>>
                /\ r.calls[id].trace = <<"user", "typing", "sendMessage">>

\* a submission made with a context is outstanding: its user Message, holding
\* the raw text and not the composed prompt, stands before its indicator
C1_Witness ==
    \E id \in ChatIds :
        /\ calls[id].status = "pending"
        /\ calls[id].prompt # calls[id].message
        /\ \E i \in 1..Len(messages) - 1 :
               /\ messages[i] = Element("user", calls[id].message, id)
               /\ messages[i + 1] = Element("typing", <<>>, id)

\* the prompt handleMessage(Q) hands to the Model Client in this state
PromptFor(Q) ==
    LET r == HandleMessage(Q) IN r.calls[Len(r.calls)].prompt

\* the user Message handleMessage(Q) records in this state
RecordedFor(Q) ==
    LET r == HandleMessage(Q) IN r.messages[Len(r.messages) - 1].content

WouldSubmit(Q) == ~geminiService.isNull /\ ~IsBlank(Q)

\* C2 as stated: with ActiveContext set to D the prompt is the composition of
\* D and Q and the transcript holds Q; with ActiveContext unset it is Q.
C2_PromptComposition ==
    \A Q \in Inputs :
        WouldSubmit(Q) =>
            /\ RecordedFor(Q) = Q
            /\ ~currentFileContent.isNull =>
                   PromptFor(Q) = ContextPrefix \o currentFileContent.text
                                      \o QuestionPrefix \o Q
            /\ currentFileContent.isNull => PromptFor(Q) = Q

\* C2 amended: the composition is used when ActiveContext is a non-empty
\* text D; when ActiveContext is unset or the empty text, the prompt is Q.
C2_PromptCompositionNonEmpty ==
    \A Q \in Inputs :
        WouldSubmit(Q) =>
            /\ RecordedFor(Q) = Q
            /\ (~currentFileContent.isNull /\ currentFileContent.text # <<>>) =>
                   PromptFor(Q) = ContextPrefix \o currentFileContent.text
                                      \o QuestionPrefix \o Q
            /\ (currentFileContent.isNull \/ currentFileContent.text = <<>>) =>
                   PromptFor(Q) = Q

\* a submission of "a" went out composed with the note "d", and the
\* transcript shows "a"
C2_Witness ==
    \E id \in ChatIds :
        /\ calls[id].message = <<"a">>
        /\ calls[id].prompt = ContextPrefix \o <<"d">> \o QuestionPrefix \o <<"a">>
        /\ HasElement(messages, Element("user", <<"a">>, id))

HasIndicator(dom, id) == HasElement(dom, Element("typing", <<>>, id))

\* C3: when the remote call of a submission fails, one error Message with
\* the fixed text is appended to an otherwise unchanged Conversation, the
\* submission's indicator is gone, the other indicators stay, the
\* invocation ends normally (status failed), and it never has a bot Message.
C3_FailureStep ==
    \A id \in ChatIds :
        (calls[id].status = "pending" /\ calls'[id].status = "failed") =>
            /\ Conversation(messages') = Conversation(messages) \o
                   <<Element("error", GeminiFailedText, id)>>
            /\ ~HasIndicator(messages', id)
            /\ \A other \in ChatIds \ {id} :
                   HasIndicator(messages', other) = HasIndicator(messages, other)

C3_FailedForGood ==
    \A id \in ChatIds :
        calls[id].status = "failed" =>
            /\ calls[id].trace =
                   <<"user", "typing", "sendMessage", "untyping", "error">>
            /\ ~HasIndicator(messages, id)
            /\ \A i \in 1..Len(messages) :
                   messages[i].call = id => messages[i].cls \in {"user", "error"}

C3_RemoteFailure == [][C3_FailureStep]_vars /\ []C3_FailedForGood

\* a submission has failed: its user Message is still there, followed by
\* the error Message
C3_Witness ==
    \E id \in ChatIds :
        /\ calls[id].status = "failed"
        /\ Conversation(messages) =
               <<Element("user", calls[id].message, id),
                 Element("error", GeminiFailedText, id)>>

\* what accepting the i-th picker with this language starts
Accepted(i, language) == TranslateCallback(modals[i], language)

C4_TranslateTraces ==
    \A id \in TranslateIds :
        /\ calls[id].status \in {"pending", "rendering"} =>
               calls[id].trace = <<"translateContent">>
        /\ calls[id].status = "rendered" =>
               calls[id].trace = <<"translateContent", "bot">>
        /\ calls[id].status = "failed" =>
               calls[id].trace = <<"translateContent", "error">>
        /\ \A i \in 1..Len(messages) :
               messages[i].call = id => messages[i].cls \in {"bot", "error"}

C4_TranslateStep ==
    /\ Len(modals') > Len(modals) => messages' = messages
    /\ Len(modals') < Len(modals) => messages' = messages
    /\ \A id \in TranslateIds :
           /\ (calls[id].status = "pending" /\ calls'[id].status = "rendering")
                  => messages' = messages
           /\ (calls[id].status = "rendering" /\ calls'[id].status = "rendered")
                  => messages' = Append(messages,
                                     Element("bot", calls[id].response, id))
           /\ (calls[id].status = "pending" /\ calls'[id].status = "failed")
                  => messages' = Append(messages,
                                     Element("error", TranslationFailedText, id))

C4_AcceptanceWithClient ==
    /\ C4_TranslateTraces
    /\ \A i \in 1..Len(modals), language \in Languages :
           LET r == Accepted(i, language)
           IN  IF geminiService.isNull
               THEN r = calls
               ELSE /\ Len(r) = Len(calls) + 1
                    /\ SubSeq(r, 1, Len(calls)) = calls
                    /\ r[Len(r)].kind = "translate"
                    /\ r[Len(r)].prompt = modals[i]
                    /\ r[Len(r)].lang = language
                    /\ r[Len(r)].trace = <<"translateContent">>

C5_OpenClears == [][(~visible /\ visible') => messages' = <<>>]_vars

\* the panel was reopened while a submission was outstanding: its user
\* Message and indicator are gone
C5_Witness ==
    /\ visible
    /\ messages = <<>>
    /\ \E id \in ChatIds : calls[id].status = "pending"

IsLatin1(s) == \A i \in 1..Len(s) : s[i] <= 255
IsPrintableAscii(s) == \A i \in 1..Len(s) : s[i] \in 32..126

\* padded base64 with no spare bits set: what btoa can return
IsCanonicalBase64(s) ==
    LET n == Len(s)
        pads == IF n > 0 /\ s[n] = PadChar
                THEN IF n > 1 /\ s[n - 1] = PadChar THEN 2 ELSE 1
                ELSE 0
    IN  /\ n % 4 = 0
        /\ \A i \in 1..(n - pads) : IsB64Char(s[i])
        /\ pads = 1 => B64Index(s[n - 1]) % 4 = 0
        /\ pads = 2 => B64Index(s[n - 2]) % 16 = 0

\* C6 as stated: reveal(obfuscate(s)) = s and obfuscate(reveal(s)) = s for
\* every string s of printable characters.
C6_RoundTripBothWays ==
    IsPrintableAscii(cred.s) =>
        /\ cred.op = "reveal(obfuscate)" => cred.out = Ok(cred.s)
        /\ cred.op = "obfuscate(reveal)" => cred.out = Ok(cred.s)

\* C6 amended: reveal(obfuscate(s)) = s for every s of code units up to 255
\* (all printable ASCII); obfuscate(reveal(s)) = s for every s in canonical
\* padded base64, the form obfuscate returns.  The settings tab, given such
\* a non-empty s, ends with a client holding s.
C6_RoundTrip ==
    /\ (cred.op = "reveal(obfuscate)" /\ IsLatin1(cred.s)) =>
           cred.out = Ok(cred.s)
    /\ (cred.op = "obfuscate(reveal)" /\ IsCanonicalBase64(cred.s)) =>
           cred.out = Ok(cred.s)
    /\ (apiKey # <<>> /\ IsLatin1(cred.s)) => geminiService = Str(cred.s)

\* a stored form of four characters was revealed and obfuscated back
C6_Witness ==
    /\ cred.op = "obfuscate(reveal)"
    /\ Len(cred.s) = MaxKeyLen
    /\ IsCanonicalBase64(cred.s)
    /\ cred.out = Ok(cred.s)

\* C7: for every rawText that is empty or blank, the submit handler and
\* handleMessage change nothing: no Message, no indicator, no remote call.
C7_BlankIsNoOp ==
    \A rawText \in Inputs :
        IsBlank(rawText) =>
            /\ SubmitHandler(rawText) = Unchanged
            /\ HandleMessage(rawText) = Unchanged

\* the panel is open with a client and a transcript, text would be
\* submitted, and a blank is not
C7_Witness ==
    /\ visible
    /\ ~geminiService.isNull
    /\ messages # <<>>
    /\ SubmitHandler(<<"a">>) # Unchanged
    /\ SubmitHandler(<<" ">>) = Unchanged

\* C8: at most one PendingRequest (an issued call that has neither
\* succeeded nor failed, with its indicator) is outstanding.
C8_AtMostOnePending ==
    Cardinality({id \in ChatIds : calls[id].status = "pending"}) <= 1

\* C9: within a session ActiveContext is unset or the text of the document
\* that was active at openSession; a session opened with no active
\* document has no ActiveContext to use (unset, or at most an empty text,
\* which the code treats alike), so submit sends rawText alone.
C9_ContextOfThisSession ==
    (visible /\ header = NoFile) =>
        /\ currentFileContent.isNull \/ currentFileContent.text = <<>>
        /\ \A Q \in Inputs : WouldSubmit(Q) => PromptFor(Q) = Q

Settled(id) == calls[id].status \in {"rendered", "failed"}

C10_OneAttempt ==
    \A id \in ChatIds :
        /\ Occurrences(calls[id].trace, "sendMessage") = 1
        /\ calls[id].status = "pending" =>
               calls[id].trace = <<"user", "typing", "sendMessage">>
        /\ calls[id].status = "rendering" =>
               calls[id].trace = <<"user", "typing", "sendMessage", "untyping">>
        /\ calls[id].status = "rendered" =>
               calls[id].trace =
                   <<"user", "typing", "sendMessage", "untyping", "bot">>
        /\ calls[id].status = "failed" =>
               calls[id].trace =
                   <<"user", "typing", "sendMessage", "untyping", "error">>
        /\ calls[id].status # "pending" => ~HasIndicator(messages, id)

C10_SettleStep ==
    \A id \in ChatIds :
        /\ (calls[id].status = "rendering" /\ calls'[id].status = "rendered")
               => messages' = Append(messages,
                                  Element("bot", calls[id].response, id))
        /\ Settled(id) => calls'[id] = calls[id]

\* C10: a submission makes one remote call attempt and, the call resolving,
\* ends Rendered (one bot Message appended) or Failed (one error Message
\* appended) with its indicator removed, whatever opens and closes the
\* panel meanwhile.
C10_Lifecycle ==
    /\ []C10_OneAttempt
    /\ [][C10_SettleStep]_vars
    /\ \A id \in 1..MaxCalls :
           (id \in ChatIds /\ calls[id].status = "pending")
               ~> (id \in ChatIds /\ Settled(id))

\* the panel was closed while the call was outstanding, and the bot Message
\* was still appended to the hidden transcript
C10_Witness ==
    \E id \in ChatIds :
        /\ calls[id].status = "rendered"
        /\ ~visible
        /\ Conversation(messages) =
               <<Element("user", calls[id].message, id),
                 Element("bot", calls[id].response, id)>>

=============================================================================
